---------------------------- MODULE Spec2Model ----------------------------
(***************************************************************************)
(* TonicAI/tval: the prompt-templating calls of tval/llm_calls.py and      *)
(* tonic_validate/utils/llm_calls.py, the overflow diagnostics of the      *)
(* latter, AnswerConsistencyBinaryMetric.score and AnswerContainsPiiMetric.*)
(*                                                                         *)
(* Text is modelled by TLA+ strings: the prompts and the error messages    *)
(* are the very strings the code builds.  Every call is one atomic action; *)
(* what the call did (its arguments, the prompt it sent, the collaborator  *)
(* invocations it made in order, what it returned or raised) is the record *)
(* `call`.                                                                 *)
(***************************************************************************)
EXTENDS Integers, Sequences, FiniteSets, TLC

VARIABLES
    metric,   \* the AnswerContainsPiiMetric object last constructed, or NoMetric
    call,     \* the last call: function, arguments, collaborator log, result
    again     \* history: the last call had the function and arguments of the one before

vars == <<metric, call, again>>

---------------------------------------------------------------------------
(* Bounds and input domains *)

\* the longest context_list drawn
MaxContexts == 2

\* the most entities the redaction service reports in one answer
MaxDetected == 2

\* field texts: the empty string and two texts that differ
Texts == {"", "ab"}

\* model names handed to get_single_message
Models == {"gpt-4"}

\* replies of the LLM service
Replies == {"True.", "  false  ", "maybe", "not true, false."}

\* str(e) of the context-length failures of the LLM service
ContextLengthTexts == {"maximum context length is 4097 tokens"}

\* the LLM service's other failures
OtherErrors ==
    { [type |-> "RateLimitError", msg |-> "rate limit reached", cause |-> "none"],
      [type |-> "APIConnectionError", msg |-> "connection refused", cause |-> "none"] }

\* tokenizers: a text of n characters counts ceil(n / per) + extra tokens
Tokenizers == { [per |-> 1, extra |-> 0], [per |-> 4, extra |-> 1] }

RECURSIVE SeqsUpTo(_, _)
SeqsUpTo(S, n) ==
    IF n = 0 THEN {<<>>}
    ELSE LET shorter == SeqsUpTo(S, n - 1)
         IN  shorter \cup {Append(s, x) : s \in {t \in shorter : Len(t) = n - 1}, x \in S}

ContextLists == SeqsUpTo(Texts, MaxContexts)

---------------------------------------------------------------------------
(* Python's string and list operations *)

\* the lower-case letter of each upper-case letter
LowerOf ==
    [A |-> "a", B |-> "b", C |-> "c", D |-> "d", E |-> "e", F |-> "f", G |-> "g",
     H |-> "h", I |-> "i", J |-> "j", K |-> "k", L |-> "l", M |-> "m", N |-> "n",
     O |-> "o", P |-> "p", Q |-> "q", R |-> "r", S |-> "s", T |-> "t", U |-> "u",
     V |-> "v", W |-> "w", X |-> "x", Y |-> "y", Z |-> "z"]

\* str.lower() on one character
LowerChar(c) == IF c \in DOMAIN LowerOf THEN LowerOf[c] ELSE c

\* str.lower()
RECURSIVE Lower(_)
Lower(s) ==
    IF Len(s) = 0 THEN ""
    ELSE LowerChar(SubSeq(s, 1, 1)) \o Lower(SubSeq(s, 2, Len(s)))

\* sub in s, for strings
Contains(s, sub) ==
    \E i \in 1..(Len(s) - Len(sub) + 1) : SubSeq(s, i, i + Len(sub) - 1) = sub

\* sep.join(list)
RECURSIVE Join(_, _)
Join(sep, list) ==
    IF Len(list) = 0 THEN ""
    ELSE IF Len(list) = 1 THEN list[1]
    ELSE list[1] \o sep \o Join(sep, Tail(list))

\* the lines of s, as str.split("\n") gives them
RECURSIVE SplitLines(_)
SplitLines(s) ==
    IF \E i \in 1..Len(s) : SubSeq(s, i, i) = "\n"
    THEN LET i == CHOOSE k \in 1..Len(s) :
                      /\ SubSeq(s, k, k) = "\n"
                      /\ \A j \in 1..(k - 1) : SubSeq(s, j, j) # "\n"
         IN  <<SubSeq(s, 1, i - 1)>> \o SplitLines(SubSeq(s, i + 1, Len(s)))
    ELSE <<s>>

Range(f) == {f[i] : i \in DOMAIN f}

---------------------------------------------------------------------------
(* The LLM service (OpenAIService, get_single_message): a collaborator *)

\* what one get_response / get_single_message invocation does
LLMOutcomes ==
    [kind : {"reply"}, text : Replies]
    \cup { [kind |-> "raise",
            error |-> [type |-> "ContextLengthException", msg |-> m, cause |-> "none"]]
           : m \in ContextLengthTexts }
    \cup { [kind |-> "raise", error |-> e] : e \in OtherErrors }

\* mutant of IsContextLength: a bare except, taking every failure
IsContextLength_any(o) == o.kind = "raise"

\* except ContextLengthException: the clause takes this failure
IsContextLength(o) == o.kind = "raise" /\ o.error.type = "ContextLengthException"

\* an OpenAIService: what its get_response does on this call, and its tokenizer.
\* A service that does not overflow is drawn with one tokenizer only.
OpenAIServices ==
    { s \in [response : LLMOutcomes, tok : Tokenizers] :
        IsContextLength(s.response) \/ s.tok = [per |-> 1, extra |-> 0] }

\* a call function hands the reply on unread: two replies are enough to tell two of
\* its calls apart
PassedReplies == {"True.", "maybe"}
CallOutcomes == { o \in LLMOutcomes : o.kind = "reply" => o.text \in PassedReplies }
CallServices == { s \in OpenAIServices : s.response \in CallOutcomes }

\* openai_service.get_token_count(text)
get_token_count(tok, text) == (Len(text) + tok.per - 1) \div tok.per + tok.extra

\* mutant of sum_context_tokens: only the first context is counted
sum_context_tokens_first(tok, context_list) ==
    IF Len(context_list) = 0 THEN 0 ELSE get_token_count(tok, Head(context_list))

\* context_tokens += openai_service.get_token_count(context), over context_list
RECURSIVE sum_context_tokens(_, _)
sum_context_tokens(tok, context_list) ==
    IF Len(context_list) = 0 THEN 0
    ELSE get_token_count(tok, Head(context_list))
         + sum_context_tokens(tok, Tail(context_list))

\* the get_token_count invocations over context_list, in order
token_count_log(list) == [i \in DOMAIN list |-> [op |-> "get_token_count", arg |-> list[i]]]

\* mutant of overflow_message: the service's own error text is left out
overflow_message_without_e(title, e, lines) ==
    LET RECURSIVE Fmt(_)
        Fmt(ls) == IF Len(ls) = 0 THEN ""
                   ELSE "\n" \o Head(ls)[1] \o ": " \o ToString(Head(ls)[2]) \o Fmt(Tail(ls))
    IN  title \o " prompt too long to score item."
        \o "\nSee details below for breakdown of token counts"
        \o Fmt(lines)

\* the message of the re-raised ContextLengthException: title, str(e), one line per
\* <<label, number>> of lines
overflow_message(title, e, lines) ==
    LET RECURSIVE Fmt(_)
        Fmt(ls) == IF Len(ls) = 0 THEN ""
                   ELSE "\n" \o Head(ls)[1] \o ": " \o ToString(Head(ls)[2]) \o Fmt(Tail(ls))
    IN  title \o " prompt too long to score item. OpenAI returned the following error message"
        \o "\n----------"
        \o "\n" \o e.msg
        \o "\n----------"
        \o "\nSee details below for breakdown of token counts"
        \o Fmt(lines)

\* mutant of Returned: the prompt's tokens are counted on the success path too
Returned_counted(fn, args, main_message, o) ==
    [fn |-> fn, args |-> args, prompt |-> main_message, service |-> o,
     log |-> <<[op |-> "get_response", arg |-> main_message],
               [op |-> "get_token_count", arg |-> main_message]>>,
     result |-> [kind |-> "return", value |-> o.text]]

\* response_message = openai_service.get_response(main_message) ... return
\* response_message: the call returns the service's reply
Returned(fn, args, main_message, o) ==
    [fn |-> fn, args |-> args, prompt |-> main_message, service |-> o,
     log |-> <<[op |-> "get_response", arg |-> main_message]>>,
     result |-> [kind |-> "return", value |-> o.text]]

\* mutant of Propagated: the failure is wrapped in an error of another type
Propagated_retyped(fn, args, main_message, o) ==
    [fn |-> fn, args |-> args, prompt |-> main_message, service |-> o,
     log |-> <<[op |-> "get_response", arg |-> main_message]>>,
     result |-> [kind |-> "raise",
                 error |-> [type |-> "ValueError", msg |-> o.error.msg,
                            cause |-> o.error.msg]]]

\* a failure the except clause does not take leaves the call as it is
Propagated(fn, args, main_message, o) ==
    [fn |-> fn, args |-> args, prompt |-> main_message, service |-> o,
     log |-> <<[op |-> "get_response", arg |-> main_message]>>,
     result |-> [kind |-> "raise", error |-> o.error]]

\* the except clause ran: get_token_count on each text of counted, in order, then
\* raise ContextLengthException(message) from e
Overflowed(fn, args, main_message, o, tok, counted, message) ==
    [fn |-> fn, args |-> args, prompt |-> main_message, service |-> o,
     log |-> <<[op |-> "get_response", arg |-> main_message]>> \o token_count_log(counted),
     result |-> [kind |-> "raise",
                 error |-> [type |-> "ContextLengthException", msg |-> message,
                            cause |-> o.error.msg],
                 tok |-> tok]]

---------------------------------------------------------------------------
(* tonic_validate/utils/llm_calls.py and tval/llm_calls.py: the fixed wording *)

\* src/tonic_validate/utils/llm_calls.py:33-38 (similarity_score_call): the fixed wording, 272 characters
similarity_score_call_text ==
       "Considering the reference answer and the new answer to the f"
    \o "ollowing question, on a scale of 0 to 5, where 5 means the s"
    \o "ame and 0 means not at all similar, how similar in meaning i"
    \o "s the new answer to the reference answer? Respond with just "
    \o "a number and no additional text."

\* src/tonic_validate/utils/llm_calls.py:90-97 (answer_consistent_with_context_call): the fixed wording, 414 characters
answer_consistent_with_context_call_text ==
       "Consider the following list of context and answer. The answe"
    \o "r answers a user's query using the context. Determine whethe"
    \o "r the answer contains any information that cannot be attribu"
    \o "ted to the information in the list of context. If the answer"
    \o " contains information that cannot be attributed to the conte"
    \o "xt then respond with false. Otherwise respond with true. Res"
    \o "pond with either true or false and no additional text."

\* src/tonic_validate/utils/llm_calls.py:148-154 (context_relevancy_call): the fixed wording, 328 characters
context_relevancy_call_text ==
       "Considering the following question and context, determine wh"
    \o "ether the context is relevant for answering the question. If"
    \o " the context is relevant for answering the question, respond"
    \o " with true. If the context is not relevant for answering the"
    \o " question, respond with false. Respond with either true or f"
    \o "alse and no additional text."

\* src/tonic_validate/utils/llm_calls.py:200-206 (answer_contains_context_call): the fixed wording, 348 characters
answer_contains_context_call_text ==
       "Considering the following answer and context, determine whet"
    \o "her the answer contains information derived from the context"
    \o ". If the answer contains information derived from the contex"
    \o "t, respond with true. If the answer does not contain informa"
    \o "tion derived from the context, respond with false. Respond w"
    \o "ith either true or false and no additional text."

\* src/tonic_validate/utils/llm_calls.py:250-255 (main_points_call): the fixed wording, 294 characters
main_points_call_text ==
       "Using a bulleted list in markdown (so each bullet is a '*'),"
    \o " write down the main points in the following answer to a use"
    \o "r's query. Respond with the bulleted list and no additional "
    \o "text. Only use a single '*' for each bullet and do not use a"
    \o " '*' anywhere in your response except for the bullets."

\* src/tonic_validate/utils/llm_calls.py:300-305 (statement_derived_from_context_call): the fixed wording, 284 characters
statement_derived_from_context_call_text ==
       "Considering the following statement and then list of context"
    \o ", determine whether the statement can be derived from the co"
    \o "ntext. If the statement can be derived from the context resp"
    \o "onse with true. Otherwise response with false. Respond with "
    \o "either true or false and no additional text."

\* src/tonic_validate/utils/llm_calls.py:354-359 (contains_duplicate_information): the fixed wording, 311 characters
contains_duplicate_information_text ==
       "Considering the following statement, determine whether the s"
    \o "tatement contains duplicate information. If the statement co"
    \o "ntains duplicate information, respond with 'true'. If the st"
    \o "atement does not contain duplicate information, respond with"
    \o " 'false'. Respond with either 'true' or 'false' and no addit"
    \o "ional text."

\* src/tval/llm_calls.py:33-40 (ask_for_similarity_score): the fixed wording, 265 characters
ask_for_similarity_score_text ==
       "Considering the reference answer and the new answer to the f"
    \o "ollowing question, on a scale of 0 to 5, where 5 means the s"
    \o "ame and 0 means not similar, how similar in meaning is the n"
    \o "ew answer to the reference answer? Respond with just a numbe"
    \o "r and no additional text."

\* src/tval/llm_calls.py:71-80 (ask_whether_answer_is_consistent_with_context): the fixed wording, 420 characters
ask_whether_answer_is_consistent_with_context_text ==
       "Considering the following list of context and then answer, w"
    \o "hich answers a user's query using the context, determine whe"
    \o "ther the answer contains any information that can not be att"
    \o "ributed to the intormation in the list of context. If the an"
    \o "swer contains information that cannot be attributed to the c"
    \o "ontext then respond with true. Otherwise response with false"
    \o ". Response with either true or false and no additional text."

\* src/tval/llm_calls.py:108-116 (ask_whether_context_is_relevant): the fixed wording, 328 characters
ask_whether_context_is_relevant_text ==
       "Considering the following question and context, determine wh"
    \o "ether the context is relevant for answering the question. If"
    \o " the context is relevant for answering the question, respons"
    \o "d with true. If the context is not relevant for answering th"
    \o "e question, respond with false. Respond with either true or "
    \o "false and no additinal text."

\* src/tval/llm_calls.py:143-151 (ask_whether_answer_contains_context): the fixed wording, 348 characters
ask_whether_answer_contains_context_text ==
       "Considering the following answer and context, determine whet"
    \o "her the answer contains information derived from the context"
    \o ". If the answer contains information derived from the contex"
    \o "t, respond with true. If the answer does not contain informa"
    \o "tion derived from the context, respond with false.  Respond "
    \o "with either true or false and no additinal text."

\* src/tval/llm_calls.py:176-183 (ask_for_main_points): the fixed wording, 294 characters
ask_for_main_points_text ==
       "Write down in a bulleted list using markdown (so each bullet"
    \o " is a \"*\"), the main points in the following answer to a use"
    \o "r's query. Respond with the bulleted list and no additional "
    \o "text. Only use a single \"*\" for each bullet and do not use a"
    \o " \"*\" anywhere in your response except for the bullets."

\* src/tval/llm_calls.py:211-218 (ask_whether_statement_derived_from_context): the fixed wording, 284 characters
ask_whether_statement_derived_from_context_text ==
       "Considering the following statement and then list of context"
    \o ", determine whether the statement can be derived from the co"
    \o "ntext. If the statement can be derived from the context resp"
    \o "onse with true. Otherwise response with false. Respond with "
    \o "either true or false and no additional text."

---------------------------------------------------------------------------
(* The numbered context blocks, shared wording of both modules *)

\* mutant of context_blocks: the numbering starts one too high
RECURSIVE context_blocks_from_one(_, _)
context_blocks_from_one(context_list, i) ==
    IF Len(context_list) = 0 THEN ""
    ELSE "\n\nCONTEXT " \o ToString(i + 1) \o ":\n" \o Head(context_list)
         \o "\nEND OF CONTEXT " \o ToString(i + 1)
         \o context_blocks_from_one(Tail(context_list), i + 1)

\* mutant of context_blocks: the numbering goes on from the contexts of the call before
context_blocks_carried(context_list, i) ==
    LET carried == IF call.fn # "none" /\ "context_list" \in DOMAIN call.args
                   THEN Len(call.args.context_list) ELSE 0
    IN  context_blocks_from_one(context_list, i + carried - 1)

\* mutant of context_blocks: a separator is written after the last block
RECURSIVE context_blocks_stray(_, _)
context_blocks_stray(context_list, i) ==
    IF Len(context_list) = 0 THEN "\n\n"
    ELSE "\n\nCONTEXT " \o ToString(i) \o ":\n" \o Head(context_list)
         \o "\nEND OF CONTEXT " \o ToString(i)
         \o context_blocks_stray(Tail(context_list), i + 1)

\* for i, context in enumerate(context_list):
\*     main_message += f"\n\nCONTEXT {i}:\n{context}\nEND OF CONTEXT {i}"
RECURSIVE context_blocks(_, _)
context_blocks(context_list, i) ==
    IF Len(context_list) = 0 THEN ""
    ELSE "\n\nCONTEXT " \o ToString(i) \o ":\n" \o Head(context_list)
         \o "\nEND OF CONTEXT " \o ToString(i)
         \o context_blocks(Tail(context_list), i + 1)

---------------------------------------------------------------------------
(* tonic_validate/utils/llm_calls.py *)

similarity_score_call_message(question, reference_answer, llm_answer) ==
    similarity_score_call_text
    \o "\nQUESTION: " \o question \o "\n"
    \o "REFERENCE ANSWER: " \o reference_answer \o "\n"
    \o "NEW ANSWER: " \o llm_answer \o "\n"

similarity_score_call(question, reference_answer, llm_answer, openai_service) ==
    LET o == openai_service.response
        tok == openai_service.tok
        args == [question |-> question, reference_answer |-> reference_answer,
                 llm_answer |-> llm_answer]
        main_message == similarity_score_call_message(question, reference_answer, llm_answer)
        question_tokens == get_token_count(tok, question)
        reference_answer_tokens == get_token_count(tok, reference_answer)
        llm_answer_tokens == get_token_count(tok, llm_answer)
        total_tokens == get_token_count(tok, main_message)
        base_prompt_tokens ==
            total_tokens - question_tokens - reference_answer_tokens - llm_answer_tokens
    IN  IF o.kind = "reply" THEN Returned("similarity_score_call", args, main_message, o)
        ELSE IF ~IsContextLength(o)
        THEN Propagated("similarity_score_call", args, main_message, o)
        ELSE Overflowed("similarity_score_call", args, main_message, o, tok,
                 <<question, reference_answer, llm_answer, main_message>>,
                 overflow_message("Similarity score", o.error,
                     << <<"Question tokens", question_tokens>>,
                        <<"Reference answer tokens", reference_answer_tokens>>,
                        <<"New answer tokens", llm_answer_tokens>>,
                        <<"Base prompt tokens", base_prompt_tokens>>,
                        <<"Total tokens", total_tokens>> >>))

\* mutant of answer_consistent_with_context_call_message: the wording of
\* tval/llm_calls.py is used
answer_consistent_with_context_call_message_tval(answer, context_list) ==
    ask_whether_answer_is_consistent_with_context_text
    \o context_blocks(context_list, 0)
    \o "\n\nANSWER: " \o answer

answer_consistent_with_context_call_message(answer, context_list) ==
    answer_consistent_with_context_call_text
    \o context_blocks(context_list, 0)
    \o "\n\nANSWER: " \o answer

answer_consistent_with_context_call(answer, context_list, openai_service) ==
    LET o == openai_service.response
        tok == openai_service.tok
        args == [answer |-> answer, context_list |-> context_list]
        main_message == answer_consistent_with_context_call_message(answer, context_list)
        answer_tokens == get_token_count(tok, answer)
        context_tokens == sum_context_tokens(tok, context_list)
        total_tokens == get_token_count(tok, main_message)
        base_prompt_tokens == total_tokens - context_tokens - answer_tokens
    IN  IF o.kind = "reply"
        THEN Returned("answer_consistent_with_context_call", args, main_message, o)
        ELSE IF ~IsContextLength(o)
        THEN Propagated("answer_consistent_with_context_call", args, main_message, o)
        ELSE Overflowed("answer_consistent_with_context_call", args, main_message, o, tok,
                 <<answer>> \o context_list \o <<main_message>>,
                 overflow_message("Consistency", o.error,
                     << <<"Answer tokens", answer_tokens>>,
                        <<"Context tokens", context_tokens>>,
                        <<"Base prompt tokens", base_prompt_tokens>>,
                        <<"Total tokens", total_tokens>> >>))

context_relevancy_call_message(question, context) ==
    context_relevancy_call_text
    \o "\nQUESTION: " \o question \o "\n"
    \o "CONTEXT: " \o context \o "\n"

context_relevancy_call(question, context, openai_service) ==
    LET o == openai_service.response
        tok == openai_service.tok
        args == [question |-> question, context |-> context]
        main_message == context_relevancy_call_message(question, context)
        question_tokens == get_token_count(tok, question)
        context_tokens == get_token_count(tok, context)
        total_tokens == get_token_count(tok, main_message)
        base_prompt_tokens == total_tokens - question_tokens - context_tokens
    IN  IF o.kind = "reply" THEN Returned("context_relevancy_call", args, main_message, o)
        ELSE IF ~IsContextLength(o)
        THEN Propagated("context_relevancy_call", args, main_message, o)
        ELSE Overflowed("context_relevancy_call", args, main_message, o, tok,
                 <<question, context, main_message>>,
                 overflow_message("Relevance", o.error,
                     << <<"Question tokens", question_tokens>>,
                        <<"Context tokens", context_tokens>>,
                        <<"Base prompt tokens", base_prompt_tokens>>,
                        <<"Total tokens", total_tokens>> >>))

answer_contains_context_call_message(answer, context) ==
    answer_contains_context_call_text
    \o "\nANSWER: " \o answer \o "\n"
    \o "CONTEXT: " \o context \o "\n"

answer_contains_context_call(answer, context, openai_service) ==
    LET o == openai_service.response
        tok == openai_service.tok
        args == [answer |-> answer, context |-> context]
        main_message == answer_contains_context_call_message(answer, context)
        answer_tokens == get_token_count(tok, answer)
        context_tokens == get_token_count(tok, context)
        total_tokens == get_token_count(tok, main_message)
        base_prompt_tokens == total_tokens - answer_tokens - context_tokens
    IN  IF o.kind = "reply"
        THEN Returned("answer_contains_context_call", args, main_message, o)
        ELSE IF ~IsContextLength(o)
        THEN Propagated("answer_contains_context_call", args, main_message, o)
        ELSE Overflowed("answer_contains_context_call", args, main_message, o, tok,
                 <<answer, context, main_message>>,
                 overflow_message("Contains context", o.error,
                     << <<"Answer tokens", answer_tokens>>,
                        <<"Context tokens", context_tokens>>,
                        <<"Base prompt tokens", base_prompt_tokens>>,
                        <<"Total tokens", total_tokens>> >>))

main_points_call_message(answer) ==
    main_points_call_text \o "\nANSWER: " \o answer

main_points_call(answer, openai_service) ==
    LET o == openai_service.response
        tok == openai_service.tok
        args == [answer |-> answer]
        main_message == main_points_call_message(answer)
        answer_tokens == get_token_count(tok, answer)
        total_tokens == get_token_count(tok, main_message)
        base_prompt_tokens == total_tokens - answer_tokens
    IN  IF o.kind = "reply" THEN Returned("main_points_call", args, main_message, o)
        ELSE IF ~IsContextLength(o)
        THEN Propagated("main_points_call", args, main_message, o)
        ELSE Overflowed("main_points_call", args, main_message, o, tok,
                 <<answer, main_message>>,
                 overflow_message("Main points", o.error,
                     << <<"Answer tokens", answer_tokens>>,
                        <<"Base prompt tokens", base_prompt_tokens>>,
                        <<"Total tokens", total_tokens>> >>))

statement_derived_from_context_call_message(statement, context_list) ==
    statement_derived_from_context_call_text
    \o "\n\nSTATEMENT:\n" \o statement \o "\nEND OF STATEMENT"
    \o context_blocks(context_list, 0)

statement_derived_from_context_call(statement, context_list, openai_service) ==
    LET o == openai_service.response
        tok == openai_service.tok
        args == [statement |-> statement, context_list |-> context_list]
        main_message == statement_derived_from_context_call_message(statement, context_list)
        statement_tokens == get_token_count(tok, statement)
        context_tokens == sum_context_tokens(tok, context_list)
        total_tokens == get_token_count(tok, main_message)
        base_prompt_tokens == total_tokens - context_tokens - statement_tokens
    IN  IF o.kind = "reply"
        THEN Returned("statement_derived_from_context_call", args, main_message, o)
        ELSE IF ~IsContextLength(o)
        THEN Propagated("statement_derived_from_context_call", args, main_message, o)
        ELSE Overflowed("statement_derived_from_context_call", args, main_message, o, tok,
                 <<statement>> \o context_list \o <<main_message>>,
                 overflow_message("Derived from context", o.error,
                     << <<"Statement tokens", statement_tokens>>,
                        <<"Context tokens", context_tokens>>,
                        <<"Base prompt tokens", base_prompt_tokens>>,
                        <<"Total tokens", total_tokens>> >>))

contains_duplicate_information_message(statement) ==
    contains_duplicate_information_text
    \o "\n\nSTATEMENT:\n" \o statement \o "\nEND OF STATEMENT"

contains_duplicate_information(statement, openai_service) ==
    LET o == openai_service.response
        tok == openai_service.tok
        args == [statement |-> statement]
        main_message == contains_duplicate_information_message(statement)
        statement_tokens == get_token_count(tok, statement)
        total_tokens == get_token_count(tok, main_message)
        base_prompt_tokens == total_tokens - statement_tokens
    IN  IF o.kind = "reply"
        THEN Returned("contains_duplicate_information", args, main_message, o)
        ELSE IF ~IsContextLength(o)
        THEN Propagated("contains_duplicate_information", args, main_message, o)
        ELSE Overflowed("contains_duplicate_information", args, main_message, o, tok,
                 <<statement, main_message>>,
                 overflow_message("Duplicate information", o.error,
                     << <<"Statement tokens", statement_tokens>>,
                        <<"Base prompt tokens", base_prompt_tokens>>,
                        <<"Total tokens", total_tokens>> >>))

---------------------------------------------------------------------------
(* tval/llm_calls.py: no except clause; o is what get_single_message does *)

\* mutant of get_single_message_call: the temperature is not the fixed 0.0
get_single_message_call_warm(fn, args, main_message, model, o) ==
    [fn |-> fn, args |-> args, prompt |-> main_message, service |-> o,
     log |-> <<[op |-> "get_single_message", arg |-> main_message, model |-> model,
                temperature |-> 1]>>,
     result |-> IF o.kind = "reply" THEN [kind |-> "return", value |-> o.text]
                ELSE [kind |-> "raise", error |-> o.error]]

\* response_message = get_single_message(main_message, model, temperature=0.0)
\* return response_message
get_single_message_call(fn, args, main_message, model, o) ==
    [fn |-> fn, args |-> args, prompt |-> main_message, service |-> o,
     log |-> <<[op |-> "get_single_message", arg |-> main_message, model |-> model,
                temperature |-> 0]>>,
     result |-> IF o.kind = "reply" THEN [kind |-> "return", value |-> o.text]
                ELSE [kind |-> "raise", error |-> o.error]]

ask_for_similarity_score_message(question, reference_answer, llm_answer) ==
    ask_for_similarity_score_text
    \o "\nQUESTION: " \o question \o "\n"
    \o "REFERENCE ANSWER: " \o reference_answer \o "\n"
    \o "NEW ANSWER: " \o llm_answer \o "\n"

ask_for_similarity_score(question, reference_answer, llm_answer, model, o) ==
    get_single_message_call("ask_for_similarity_score",
        [question |-> question, reference_answer |-> reference_answer,
         llm_answer |-> llm_answer, model |-> model],
        ask_for_similarity_score_message(question, reference_answer, llm_answer), model, o)

ask_whether_answer_is_consistent_with_context_message(answer, context_list) ==
    ask_whether_answer_is_consistent_with_context_text
    \o context_blocks(context_list, 0)
    \o "\n\nANSWER: " \o answer

ask_whether_answer_is_consistent_with_context(answer, context_list, model, o) ==
    get_single_message_call("ask_whether_answer_is_consistent_with_context",
        [answer |-> answer, context_list |-> context_list, model |-> model],
        ask_whether_answer_is_consistent_with_context_message(answer, context_list), model, o)

ask_whether_context_is_relevant_message(question, context) ==
    ask_whether_context_is_relevant_text
    \o "\nQUESTION: " \o question \o "\n"
    \o "CONTEXT: " \o context \o "\n"

ask_whether_context_is_relevant(question, context, model, o) ==
    get_single_message_call("ask_whether_context_is_relevant",
        [question |-> question, context |-> context, model |-> model],
        ask_whether_context_is_relevant_message(question, context), model, o)

ask_whether_answer_contains_context_message(answer, context) ==
    ask_whether_answer_contains_context_text
    \o "\nANSWER: " \o answer \o "\n"
    \o "CONTEXT: " \o context \o "\n"

ask_whether_answer_contains_context(answer, context, model, o) ==
    get_single_message_call("ask_whether_answer_contains_context",
        [answer |-> answer, context |-> context, model |-> model],
        ask_whether_answer_contains_context_message(answer, context), model, o)

ask_for_main_points_message(answer) ==
    ask_for_main_points_text \o "\nANSWER: " \o answer

ask_for_main_points(answer, model, o) ==
    get_single_message_call("ask_for_main_points",
        [answer |-> answer, model |-> model],
        ask_for_main_points_message(answer), model, o)

ask_whether_statement_derived_from_context_message(statement, context_list) ==
    ask_whether_statement_derived_from_context_text
    \o "\n\nSTATEMENT:\n" \o statement \o "\nEND OF STATEMENT"
    \o context_blocks(context_list, 0)

ask_whether_statement_derived_from_context(statement, context_list, model, o) ==
    get_single_message_call("ask_whether_statement_derived_from_context",
        [statement |-> statement, context_list |-> context_list, model |-> model],
        ask_whether_statement_derived_from_context_message(statement, context_list), model, o)

---------------------------------------------------------------------------
(* tvalmetrics/metrics/answer_consistency_binary_metric.py *)

\* tvalmetrics.utils.metrics_util.parse_boolean_response is not among the sources.
\* As specified: a case-insensitive search for "true" / "false" anywhere in the
\* reply; neither found is a failure; both found is left open (any of the three).
parse_boolean_response(response) ==
    LET lowered == Lower(response)
        yes == [kind |-> "return", value |-> TRUE]
        no == [kind |-> "return", value |-> FALSE]
        failure == [kind |-> "raise",
                    error |-> [type |-> "ParseError",
                               msg |-> "Could not determine true or false from response "
                                       \o lowered,
                               cause |-> "none"]]
    IN  IF Contains(lowered, "true") /\ Contains(lowered, "false") THEN {yes, no, failure}
        ELSE IF Contains(lowered, "true") THEN {yes}
        ELSE IF Contains(lowered, "false") THEN {no}
        ELSE {failure}

\* int(bool)
int(b) == IF b THEN 1 ELSE 0

\* mutant of score: a reply that does not parse scores 0
score_default_zero(llm_answer, llm_context_list, openai_service, parsed) ==
    LET hallucination_response ==
            answer_consistent_with_context_call(llm_answer, llm_context_list, openai_service)
    IN  [fn |-> "AnswerConsistencyBinaryMetric.score",
         args |-> [llm_answer |-> llm_answer, llm_context_list |-> llm_context_list],
         prompt |-> hallucination_response.prompt,
         service |-> hallucination_response.service,
         log |-> hallucination_response.log,
         parsed |-> IF hallucination_response.result.kind = "raise" THEN <<>>
                    ELSE <<hallucination_response.result.value, parsed>>,
         result |-> IF hallucination_response.result.kind = "raise"
                    THEN hallucination_response.result
                    ELSE IF parsed.kind = "return"
                    THEN [kind |-> "return", value |-> int(parsed.value)]
                    ELSE [kind |-> "return", value |-> 0]]

\* AnswerConsistencyBinaryMetric.score.  The answer_consistent_with_context_call it
\* imports (tvalmetrics.utils.llm_calls) is the function of that name and signature of
\* tonic_validate/utils/llm_calls.py.  parsed: what parse_boolean_response did.
score(llm_answer, llm_context_list, openai_service, parsed) ==
    LET hallucination_response ==
            answer_consistent_with_context_call(llm_answer, llm_context_list, openai_service)
        args == [llm_answer |-> llm_answer, llm_context_list |-> llm_context_list]
    IN  [fn |-> "AnswerConsistencyBinaryMetric.score",
         args |-> args,
         prompt |-> hallucination_response.prompt,
         service |-> hallucination_response.service,
         log |-> hallucination_response.log,
         parsed |-> IF hallucination_response.result.kind = "raise" THEN <<>>
                    ELSE <<hallucination_response.result.value, parsed>>,
         result |-> IF hallucination_response.result.kind = "raise"
                    THEN hallucination_response.result
                    ELSE IF parsed.kind = "return"
                    THEN [kind |-> "return", value |-> int(parsed.value)]
                    ELSE parsed]

---------------------------------------------------------------------------
(* tonic_validate/metrics/answer_contains_pii_metric.py *)

\* Optional[str]: <<>> is None, <<s>> is the string s
None == <<>>
ApiKeys == {None, <<"key-123">>}

\* pii_types handed to the constructor
PiiTypeLists == { <<"email">>, <<"NAME", "Email">> }

\* labels of the entities the redaction service detects
DetectedLabels == {"Email", "Name", "Mail"}

\* what one redact() invocation does
RedactOutcomes ==
    { [kind |-> "response", labels |-> ls] : ls \in SeqsUpTo(DetectedLabels, MaxDetected) }
    \cup { [kind |-> "raise", error |-> e] :
           e \in { [type |-> "ConnectionError", msg |-> "textual unreachable", cause |-> "none"],
                   [type |-> "HTTPError", msg |-> "500 Server Error", cause |-> "none"] } }

\* [p.lower() for p in pii_types]
lower_all(pii_types) == [i \in DOMAIN pii_types |-> Lower(pii_types[i])]

\* no object: the construction failed, or there was none yet
NoObject == [constructed |-> FALSE]

\* mutant of AnswerContainsPiiMetric_init: the key is not looked for, the client is
\* built in any case
AnswerContainsPiiMetric_init_unchecked(pii_types, textual_api_key, env) ==
    LET client_args == IF textual_api_key = None THEN <<"https://textual.tonic.ai">>
                       ELSE <<"https://textual.tonic.ai", textual_api_key[1]>>
    IN  << [fn |-> "AnswerContainsPiiMetric.__init__",
            args |-> [pii_types |-> pii_types, textual_api_key |-> textual_api_key],
            env |-> env,
            log |-> <<[op |-> "TonicTextual", args |-> client_args]>>,
            result |-> [kind |-> "return"]],
           [constructed |-> TRUE,
            pii_types |-> lower_all(pii_types),
            textual |-> client_args,
            name |-> "answer_contains_pii",
            given_pii_types |-> pii_types] >>

\* AnswerContainsPiiMetric.__init__: <<the call, the object or NoObject>>.
\* env is os.getenv("TONIC_TEXTUAL_API_KEY").  given_pii_types is history: the
\* pii_types the constructor was given, which the object itself does not keep.
AnswerContainsPiiMetric_init(pii_types, textual_api_key, env) ==
    LET args == [pii_types |-> pii_types, textual_api_key |-> textual_api_key]
        self_pii_types == lower_all(pii_types)
        url == "https://textual.tonic.ai"
        built(client_args) ==
            << [fn |-> "AnswerContainsPiiMetric.__init__", args |-> args, env |-> env,
                log |-> <<[op |-> "TonicTextual", args |-> client_args]>>,
                result |-> [kind |-> "return"]],
               [constructed |-> TRUE,
                pii_types |-> self_pii_types,
                textual |-> client_args,
                name |-> "answer_contains_pii",
                given_pii_types |-> pii_types] >>
    IN  IF textual_api_key = None
        THEN IF env = None
             THEN << [fn |-> "AnswerContainsPiiMetric.__init__", args |-> args, env |-> env,
                      log |-> <<>>,
                      result |-> [kind |-> "raise",
                          error |-> [type |-> "ValueError",
                              msg |-> "You must set TONIC_TEXTUAL_API_KEY in your ENV "
                                      \o "or pass your Textual API key into the "
                                      \o "constructor.",
                              cause |-> "none"]]],
                     NoObject >>
             ELSE built(<<url>>)
        ELSE built(<<url, textual_api_key[1]>>)

\* mutant of scan_labels: only the first detected entity is looked at
scan_labels_first(labels, pii_types) ==
    IF Len(labels) = 0 THEN 0
    ELSE IF Lower(Head(labels)) \in Range(pii_types) THEN 1 ELSE 0

\* for d in response.de_identify_results:
\*     if d.label.lower() in self.pii_types: return 1.0
\* return 0.0
RECURSIVE scan_labels(_, _)
scan_labels(labels, pii_types) ==
    IF Len(labels) = 0 THEN 0
    ELSE IF Lower(Head(labels)) \in Range(pii_types) THEN 1
    ELSE scan_labels(Tail(labels), pii_types)

\* mutant of metric_callback: a failed redaction scores 0.0
metric_callback_default(self, llm_context_list, r) ==
    [fn |-> "AnswerContainsPiiMetric.metric_callback",
     args |-> [llm_context_list |-> llm_context_list],
     service |-> r,
     log |-> <<[op |-> "redact", arg |-> Join("\n", llm_context_list)]>>,
     result |-> [kind |-> "return",
                 value |-> IF r.kind = "response"
                           THEN scan_labels(r.labels, self.pii_types) ELSE 0]]

\* AnswerContainsPiiMetric.metric_callback on the object self.  r: what redact does
metric_callback(self, llm_context_list, r) ==
    LET text == Join("\n", llm_context_list)
    IN  [fn |-> "AnswerContainsPiiMetric.metric_callback",
         args |-> [llm_context_list |-> llm_context_list],
         service |-> r,
         log |-> <<[op |-> "redact", arg |-> text]>>,
         result |->
            IF r.kind = "response"
            THEN [kind |-> "return", value |-> scan_labels(r.labels, self.pii_types)]
            ELSE [kind |-> "raise",
                  error |-> [type |-> "ValueError",
                             msg |-> "Cannot compute AnswerContainsPiiMetric. Error occured "
                                     \o "communicating with Textual.  Please try again later "
                                     \o "or reach out via GitHub issues.",
                             cause |-> "none"]]]

---------------------------------------------------------------------------
(* State machine *)

NoCall == [fn |-> "none"]
NoMetric == NoObject

Init ==
    /\ metric = NoMetric
    /\ call = NoCall
    /\ again = FALSE

\* the call c, made now, has the function and the arguments of the call before it
Repeats(c) == c.fn = call.fn /\ c.args = call.args

\* TLC computes the records of an action's calls once, when it splits Next into its
\* actions, and its workers then share those values.  Comparing a record with itself,
\* there, puts every record inside it in TLC's normal form before it is shared.
Settled(c) == IF c = c THEN c ELSE NoCall

\* One action per function: a call with any arguments, on any service behaviour.
\* c is all the call did; a module-level function leaves the metric object alone.

Call_similarity_score_call ==
    \E c \in { Settled(similarity_score_call(question, reference_answer, llm_answer,
                                             openai_service)) :
               question \in Texts, reference_answer \in Texts, llm_answer \in Texts,
               openai_service \in CallServices } :
        /\ call' = c
        /\ again' = Repeats(c)
        /\ UNCHANGED metric

Call_answer_consistent_with_context_call ==
    \E c \in { Settled(answer_consistent_with_context_call(answer, context_list,
                                                           openai_service)) :
               answer \in Texts, context_list \in ContextLists,
               openai_service \in CallServices } :
        /\ call' = c
        /\ again' = Repeats(c)
        /\ UNCHANGED metric

Call_context_relevancy_call ==
    \E c \in { Settled(context_relevancy_call(question, context, openai_service)) :
               question \in Texts, context \in Texts, openai_service \in CallServices } :
        /\ call' = c
        /\ again' = Repeats(c)
        /\ UNCHANGED metric

Call_answer_contains_context_call ==
    \E c \in { Settled(answer_contains_context_call(answer, context, openai_service)) :
               answer \in Texts, context \in Texts, openai_service \in CallServices } :
        /\ call' = c
        /\ again' = Repeats(c)
        /\ UNCHANGED metric

Call_main_points_call ==
    \E c \in { Settled(main_points_call(answer, openai_service)) :
               answer \in Texts, openai_service \in CallServices } :
        /\ call' = c
        /\ again' = Repeats(c)
        /\ UNCHANGED metric

Call_statement_derived_from_context_call ==
    \E c \in { Settled(statement_derived_from_context_call(statement, context_list,
                                                           openai_service)) :
               statement \in Texts, context_list \in ContextLists,
               openai_service \in CallServices } :
        /\ call' = c
        /\ again' = Repeats(c)
        /\ UNCHANGED metric

Call_contains_duplicate_information ==
    \E c \in { Settled(contains_duplicate_information(statement, openai_service)) :
               statement \in Texts, openai_service \in CallServices } :
        /\ call' = c
        /\ again' = Repeats(c)
        /\ UNCHANGED metric

Call_ask_for_similarity_score ==
    \E c \in { Settled(ask_for_similarity_score(question, reference_answer, llm_answer,
                                                model, o)) :
               question \in Texts, reference_answer \in Texts, llm_answer \in Texts,
               model \in Models, o \in CallOutcomes } :
        /\ call' = c
        /\ again' = Repeats(c)
        /\ UNCHANGED metric

Call_ask_whether_answer_is_consistent_with_context ==
    \E c \in { Settled(ask_whether_answer_is_consistent_with_context(answer, context_list,
                                                                     model, o)) :
               answer \in Texts, context_list \in ContextLists,
               model \in Models, o \in CallOutcomes } :
        /\ call' = c
        /\ again' = Repeats(c)
        /\ UNCHANGED metric

Call_ask_whether_context_is_relevant ==
    \E c \in { Settled(ask_whether_context_is_relevant(question, context, model, o)) :
               question \in Texts, context \in Texts, model \in Models, o \in CallOutcomes } :
        /\ call' = c
        /\ again' = Repeats(c)
        /\ UNCHANGED metric

Call_ask_whether_answer_contains_context ==
    \E c \in { Settled(ask_whether_answer_contains_context(answer, context, model, o)) :
               answer \in Texts, context \in Texts, model \in Models, o \in CallOutcomes } :
        /\ call' = c
        /\ again' = Repeats(c)
        /\ UNCHANGED metric

Call_ask_for_main_points ==
    \E c \in { Settled(ask_for_main_points(answer, model, o)) :
               answer \in Texts, model \in Models, o \in CallOutcomes } :
        /\ call' = c
        /\ again' = Repeats(c)
        /\ UNCHANGED metric

Call_ask_whether_statement_derived_from_context ==
    \E c \in { Settled(ask_whether_statement_derived_from_context(statement, context_list,
                                                                  model, o)) :
               statement \in Texts, context_list \in ContextLists,
               model \in Models, o \in CallOutcomes } :
        /\ call' = c
        /\ again' = Repeats(c)
        /\ UNCHANGED metric

\* what parse_boolean_response can do on what the service does
ParseOutcomes(openai_service) ==
    IF openai_service.response.kind = "reply"
    THEN parse_boolean_response(openai_service.response.text)
    ELSE {<<>>}

Call_score ==
    \E c \in UNION { { Settled(score(llm_answer, llm_context_list, openai_service, parsed)) :
                       llm_answer \in Texts, llm_context_list \in ContextLists,
                       parsed \in ParseOutcomes(openai_service) } :
                     openai_service \in OpenAIServices } :
        /\ call' = c
        /\ again' = Repeats(c)
        /\ UNCHANGED metric

\* metric = AnswerContainsPiiMetric(pii_types, textual_api_key); r is what __init__
\* did and the object it built: a failed construction binds nothing
Construct_AnswerContainsPiiMetric ==
    \E r \in { Settled(AnswerContainsPiiMetric_init(pii_types, textual_api_key, env)) :
               pii_types \in PiiTypeLists, textual_api_key \in ApiKeys, env \in ApiKeys } :
        /\ call' = r[1]
        /\ again' = Repeats(r[1])
        /\ metric' = IF r[1].result.kind = "return" THEN r[2] ELSE metric

\* the objects __init__ can construct
MetricObjects ==
    { AnswerContainsPiiMetric_init(pii_types, textual_api_key, env)[2] :
        pii_types \in PiiTypeLists, textual_api_key \in ApiKeys, env \in ApiKeys }
    \ {NoObject}

\* what metric_callback can do on each object: every context list, every behaviour
\* of redact
CallbacksOf ==
    Settled([self \in MetricObjects |->
                { Settled(metric_callback(self, llm_context_list, r)) :
                  llm_context_list \in ContextLists, r \in RedactOutcomes }])

\* metric.metric_callback(llm_response, openai_service), on the constructed object
Call_metric_callback ==
    /\ metric.constructed
    /\ \E c \in CallbacksOf[metric] :
           /\ call' = c
           /\ again' = Repeats(c)
           /\ UNCHANGED metric

Next ==
    \/ Call_similarity_score_call
    \/ Call_answer_consistent_with_context_call
    \/ Call_context_relevancy_call
    \/ Call_answer_contains_context_call
    \/ Call_main_points_call
    \/ Call_statement_derived_from_context_call
    \/ Call_contains_duplicate_information
    \/ Call_ask_for_similarity_score
    \/ Call_ask_whether_answer_is_consistent_with_context
    \/ Call_ask_whether_context_is_relevant
    \/ Call_ask_whether_answer_contains_context
    \/ Call_ask_for_main_points
    \/ Call_ask_whether_statement_derived_from_context
    \/ Call_score
    \/ Construct_AnswerContainsPiiMetric
    \/ Call_metric_callback

Spec == Init /\ [][Next]_vars

---------------------------------------------------------------------------
(* Reading a call record and an overflow message back *)

TonicValidateCalls ==
    {"similarity_score_call", "answer_consistent_with_context_call",
     "context_relevancy_call", "answer_contains_context_call", "main_points_call",
     "statement_derived_from_context_call", "contains_duplicate_information"}

TvalCalls ==
    {"ask_for_similarity_score", "ask_whether_answer_is_consistent_with_context",
     "ask_whether_context_is_relevant", "ask_whether_answer_contains_context",
     "ask_for_main_points", "ask_whether_statement_derived_from_context"}

\* the calls whose prompt carries a context list
ConsistencyCalls ==
    {"answer_consistent_with_context_call", "ask_whether_answer_is_consistent_with_context"}
DerivationCalls ==
    {"statement_derived_from_context_call", "ask_whether_statement_derived_from_context"}

\* get_response of a tonic_validate call function raised ContextLengthException
Overflow(c) ==
    /\ c.fn \in TonicValidateCalls
    /\ c.service.kind = "raise"
    /\ c.service.error.type = "ContextLengthException"

\* the variable segments of a tonic_validate call, every context an entry of its own
VariableSegments(c) ==
    CASE c.fn = "similarity_score_call" ->
             <<c.args.question, c.args.reference_answer, c.args.llm_answer>>
      [] c.fn = "answer_consistent_with_context_call" ->
             <<c.args.answer>> \o c.args.context_list
      [] c.fn = "context_relevancy_call" -> <<c.args.question, c.args.context>>
      [] c.fn = "answer_contains_context_call" -> <<c.args.answer, c.args.context>>
      [] c.fn = "main_points_call" -> <<c.args.answer>>
      [] c.fn = "statement_derived_from_context_call" ->
             <<c.args.statement>> \o c.args.context_list
      [] c.fn = "contains_duplicate_information" -> <<c.args.statement>>

RECURSIVE SumSeq(_)
SumSeq(ns) == IF Len(ns) = 0 THEN 0 ELSE Head(ns) + SumSeq(Tail(ns))

\* the value of a decimal digit
DigitValue(ch) == CHOOSE d \in 0..9 : ToString(d) = ch

IsDigits(s) == Len(s) > 0 /\ \A i \in 1..Len(s) : \E d \in 0..9 : ToString(d) = SubSeq(s, i, i)

RECURSIVE ParseNat(_)
ParseNat(s) ==
    IF Len(s) = 0 THEN 0
    ELSE 10 * ParseNat(SubSeq(s, 1, Len(s) - 1)) + DigitValue(SubSeq(s, Len(s), Len(s)))

IsInt(s) == IF Len(s) > 0 /\ SubSeq(s, 1, 1) = "-" THEN IsDigits(SubSeq(s, 2, Len(s)))
            ELSE IsDigits(s)

ParseInt(s) == IF SubSeq(s, 1, 1) = "-" THEN 0 - ParseNat(SubSeq(s, 2, Len(s)))
               ELSE ParseNat(s)

BreakdownMarker == "See details below for breakdown of token counts"

\* a line "label: number" of the breakdown
IsEntry(line) ==
    \E i \in 1..(Len(line) - 2) :
        SubSeq(line, i, i + 1) = ": " /\ IsInt(SubSeq(line, i + 2, Len(line)))

EntryOf(line) ==
    LET i == CHOOSE k \in 1..(Len(line) - 2) :
                 SubSeq(line, k, k + 1) = ": " /\ IsInt(SubSeq(line, k + 2, Len(line)))
    IN  [label |-> SubSeq(line, 1, i - 1), tokens |-> ParseInt(SubSeq(line, i + 2, Len(line)))]

\* the message ends with the marker line and then entries only
HasBreakdown(msg) ==
    LET lines == SplitLines(msg)
    IN  \E k \in 1..Len(lines) :
            /\ lines[k] = BreakdownMarker
            /\ \A j \in (k + 1)..Len(lines) : IsEntry(lines[j])

\* the entries of the breakdown, in the order the message gives them
Breakdown(msg) ==
    LET lines == SplitLines(msg)
        k == CHOOSE i \in 1..Len(lines) :
                 /\ lines[i] = BreakdownMarker
                 /\ \A j \in (i + 1)..Len(lines) : IsEntry(lines[j])
    IN  [i \in 1..(Len(lines) - k) |-> EntryOf(lines[k + i])]

\* the entry of that label, when the breakdown has just one
HasOne(entries, label) == Cardinality({i \in DOMAIN entries : entries[i].label = label}) = 1
TokensOf(entries, label) ==
    entries[CHOOSE i \in DOMAIN entries : entries[i].label = label].tokens

\* the segments a tonic_validate call hands in as single texts, and the labels the
\* breakdown gives them
ScalarSegments(c) ==
    CASE c.fn = "similarity_score_call" ->
             << <<"Question tokens", c.args.question>>,
                <<"Reference answer tokens", c.args.reference_answer>>,
                <<"New answer tokens", c.args.llm_answer>> >>
      [] c.fn = "answer_consistent_with_context_call" ->
             << <<"Answer tokens", c.args.answer>> >>
      [] c.fn = "context_relevancy_call" ->
             << <<"Question tokens", c.args.question>>,
                <<"Context tokens", c.args.context>> >>
      [] c.fn = "answer_contains_context_call" ->
             << <<"Answer tokens", c.args.answer>>, <<"Context tokens", c.args.context>> >>
      [] c.fn = "main_points_call" -> << <<"Answer tokens", c.args.answer>> >>
      [] c.fn = "statement_derived_from_context_call" ->
             << <<"Statement tokens", c.args.statement>> >>
      [] c.fn = "contains_duplicate_information" ->
             << <<"Statement tokens", c.args.statement>> >>

HasContextList(c) ==
    c.fn \in {"answer_consistent_with_context_call", "statement_derived_from_context_call"}

ContextListCalls == ConsistencyCalls \cup DerivationCalls

\* the fixed wording a call with a context list starts from
FixedText(fn) ==
    CASE fn = "answer_consistent_with_context_call" -> answer_consistent_with_context_call_text
      [] fn = "statement_derived_from_context_call" -> statement_derived_from_context_call_text
      [] fn = "ask_whether_answer_is_consistent_with_context" ->
             ask_whether_answer_is_consistent_with_context_text
      [] fn = "ask_whether_statement_derived_from_context" ->
             ask_whether_statement_derived_from_context_text

\* the prompt the call function fn builds for a context list
MessageOf(fn, args, context_list) ==
    CASE fn = "answer_consistent_with_context_call" ->
             answer_consistent_with_context_call_message(args.answer, context_list)
      [] fn = "statement_derived_from_context_call" ->
             statement_derived_from_context_call_message(args.statement, context_list)
      [] fn = "ask_whether_answer_is_consistent_with_context" ->
             ask_whether_answer_is_consistent_with_context_message(args.answer, context_list)
      [] fn = "ask_whether_statement_derived_from_context" ->
             ask_whether_statement_derived_from_context_message(args.statement, context_list)

\* the single ANSWER / STATEMENT segment with its separators
AnswerSegment(args) == "\n\nANSWER: " \o args.answer
StatementSegment(args) == "\n\nSTATEMENT:\n" \o args.statement \o "\nEND OF STATEMENT"

\* what a prompt holds where the context blocks belong: between the fixed wording
\* and the ANSWER segment (Consistency), after the STATEMENT segment (Derivation)
ContextSection(fn, args, prompt) ==
    IF fn \in ConsistencyCalls
    THEN SubSeq(prompt, Len(FixedText(fn)) + 1, Len(prompt) - Len(AnswerSegment(args)))
    ELSE SubSeq(prompt, Len(FixedText(fn)) + Len(StatementSegment(args)) + 1, Len(prompt))

\* 'CONTEXT {i}:\n{text}\nEND OF CONTEXT {i}'
Block(i, text) ==
    "CONTEXT " \o ToString(i) \o ":\n" \o text \o "\nEND OF CONTEXT " \o ToString(i)

\* the length of the first k blocks of context_list, each after a blank line
BlocksLen(context_list, k) ==
    SumSeq([j \in 1..k |-> 2 + Len(Block(j - 1, context_list[j]))])

\* what section holds where block number i - 1 of context_list belongs
BlockAt(section, context_list, i) ==
    SubSeq(section, BlocksLen(context_list, i - 1) + 3, BlocksLen(context_list, i))

Swapped(context_list, i, j) ==
    [k \in DOMAIN context_list |->
        IF k = i THEN context_list[j] ELSE IF k = j THEN context_list[i]
        ELSE context_list[k]]

PiiCallback == "AnswerContainsPiiMetric.metric_callback"
PiiInit == "AnswerContainsPiiMetric.__init__"
BinaryScore == "AnswerConsistencyBinaryMetric.score"

\* the calls that talk to the LLM service
LLMCalls == TonicValidateCalls \cup TvalCalls \cup {BinaryScore}

\* the prompt the call function fn builds from the arguments args
BuiltPrompt(fn, args) ==
    CASE fn = "similarity_score_call" ->
             similarity_score_call_message(args.question, args.reference_answer,
                                           args.llm_answer)
      [] fn = "context_relevancy_call" ->
             context_relevancy_call_message(args.question, args.context)
      [] fn = "answer_contains_context_call" ->
             answer_contains_context_call_message(args.answer, args.context)
      [] fn = "main_points_call" -> main_points_call_message(args.answer)
      [] fn = "contains_duplicate_information" ->
             contains_duplicate_information_message(args.statement)
      [] fn = "ask_for_similarity_score" ->
             ask_for_similarity_score_message(args.question, args.reference_answer,
                                              args.llm_answer)
      [] fn = "ask_whether_context_is_relevant" ->
             ask_whether_context_is_relevant_message(args.question, args.context)
      [] fn = "ask_whether_answer_contains_context" ->
             ask_whether_answer_contains_context_message(args.answer, args.context)
      [] fn = "ask_for_main_points" -> ask_for_main_points_message(args.answer)
      [] fn \in ContextListCalls -> MessageOf(fn, args, args.context_list)

\* the calls that build a prompt and send it
PromptCalls == TonicValidateCalls \cup TvalCalls

\* what a Consistency prompt says the reply 'true' stands for
TrueWhenAttributable(prompt) ==
    Contains(prompt, "If the answer contains information that cannot be attributed to "
                     \o "the context then respond with false. Otherwise respond with true.")
TrueWhenUnattributable(prompt) ==
    Contains(prompt, "If the answer contains information that cannot be attributed to "
                     \o "the context then respond with true. Otherwise response with false.")

---------------------------------------------------------------------------
(* Claims *)

\* C1: in every call function of tonic_validate/utils/llm_calls.py, when get_response
\* raises ContextLengthException the numbers the raised message reports satisfy
\* (sum of the token counts of all variable segments, every entry of context_list
\* counted) + base prompt tokens = total tokens, total being the token count of the
\* full rendered prompt; so do the segment entries the message lists.
C1_TokenIdentity ==
    Overflow(call) =>
        /\ call.result.kind = "raise"
        /\ HasBreakdown(call.result.error.msg)
        /\ LET entries == Breakdown(call.result.error.msg)
               tok == call.result.tok
               segments == VariableSegments(call)
               own == [i \in DOMAIN segments |-> get_token_count(tok, segments[i])]
               listed == [i \in 1..(Len(entries) - 2) |-> entries[i].tokens]
           IN  /\ HasOne(entries, "Base prompt tokens")
               /\ HasOne(entries, "Total tokens")
               /\ TokensOf(entries, "Total tokens") = get_token_count(tok, call.prompt)
               /\ SumSeq(own) + TokensOf(entries, "Base prompt tokens")
                      = TokensOf(entries, "Total tokens")
               /\ SumSeq(listed) + TokensOf(entries, "Base prompt tokens")
                      = TokensOf(entries, "Total tokens")

\* C1 witness: an overflow of a list task with two contexts that count differently
C1_Witness ==
    /\ Overflow(call)
    /\ call.fn = "statement_derived_from_context_call"
    /\ Len(call.args.context_list) = 2
    /\ call.args.context_list[1] # call.args.context_list[2]
    /\ call.result.tok.per > 1
    /\ TokensOf(Breakdown(call.result.error.msg), "Total tokens") > 0

\* C2 as claimed: on a context-length failure the re-raised message embeds the
\* service's error and lists every segment with its own token count, for a list task
\* one entry per context, besides the base-prompt and the total count.
C2_EverySegmentListed ==
    Overflow(call) =>
        /\ call.result.kind = "raise"
        /\ call.result.error.type = "ContextLengthException"
        /\ Contains(call.result.error.msg, "\n" \o call.service.error.msg \o "\n")
        /\ HasBreakdown(call.result.error.msg)
        /\ LET entries == Breakdown(call.result.error.msg)
               segments == VariableSegments(call)
               listed == 1..(Len(entries) - 2)
           IN  /\ HasOne(entries, "Base prompt tokens")
               /\ HasOne(entries, "Total tokens")
               /\ \E f \in [DOMAIN segments -> listed] :
                      /\ \A i, j \in DOMAIN segments : f[i] = f[j] => i = j
                      /\ \A i \in DOMAIN segments :
                             entries[f[i]].tokens
                                 = get_token_count(call.result.tok, segments[i])

\* C2 as amended: on a context-length failure the call raises a ContextLengthException
\* (from the service's error) whose message embeds the service's error text and then
\* lists, in this order: each single-text segment under its label with its own token
\* count; for a task with a context list ONE entry "Context tokens" with the sum over
\* all contexts; "Base prompt tokens"; "Total tokens", the count of the whole prompt.
C2_Breakdown ==
    Overflow(call) =>
        /\ call.result.kind = "raise"
        /\ call.result.error.type = "ContextLengthException"
        /\ call.result.error.cause = call.service.error.msg
        /\ Contains(call.result.error.msg, "\n" \o call.service.error.msg \o "\n")
        /\ HasBreakdown(call.result.error.msg)
        /\ LET entries == Breakdown(call.result.error.msg)
               tok == call.result.tok
               scalars == ScalarSegments(call)
               k == Len(scalars)
               n == IF HasContextList(call) THEN k + 1 ELSE k
               contexts == IF HasContextList(call) THEN call.args.context_list ELSE <<>>
               counts == [i \in DOMAIN contexts |-> get_token_count(tok, contexts[i])]
           IN  /\ Len(entries) = n + 2
               /\ \A i \in 1..k :
                      /\ entries[i].label = scalars[i][1]
                      /\ entries[i].tokens = get_token_count(tok, scalars[i][2])
               /\ HasContextList(call) =>
                      /\ entries[n].label = "Context tokens"
                      /\ entries[n].tokens = SumSeq(counts)
               /\ entries[n + 1].label = "Base prompt tokens"
               /\ entries[n + 2].label = "Total tokens"
               /\ entries[n + 2].tokens = get_token_count(tok, call.prompt)

\* C2 witness: an overflow of the consistency call with two contexts, reported as one
\* "Context tokens" entry
C2_Witness ==
    /\ Overflow(call)
    /\ call.fn = "answer_consistent_with_context_call"
    /\ Len(call.args.context_list) = 2
    /\ Len(Breakdown(call.result.error.msg)) = 4
    /\ Breakdown(call.result.error.msg)[2].label = "Context tokens"

\* C3: in every call function of tonic_validate/utils/llm_calls.py a failure of
\* get_response that is not a ContextLengthException reaches the caller unchanged: the
\* same error is raised, get_token_count is never invoked, and no
\* ContextLengthException is produced.
C3_OtherFailuresPropagate ==
    ( /\ call.fn \in TonicValidateCalls
      /\ call.service.kind = "raise"
      /\ call.service.error.type # "ContextLengthException" ) =>
        /\ call.result.kind = "raise"
        /\ call.result.error = call.service.error
        /\ call.result.error.type # "ContextLengthException"
        /\ call.log = <<[op |-> "get_response", arg |-> call.prompt]>>

\* C3 witness: contains_duplicate_information met a rate-limit failure
C3_Witness ==
    /\ call.fn = "contains_duplicate_information"
    /\ call.service.kind = "raise"
    /\ call.service.error.type = "RateLimitError"
    /\ call.result.kind = "raise"

\* C4: when redact succeeds, metric_callback returns 1.0 if and only if some detected
\* label, lowercased, equals some requested PII type lowercased (whole label, not a
\* part of it), and 0.0 otherwise; the score is the same for every order and
\* multiplicity of the same detected labels.
C4_PiiContainment ==
    (call.fn = PiiCallback /\ call.service.kind = "response") =>
        LET detected == call.service.labels
            requested == metric.given_pii_types
            hit == \E d \in Range(detected) : \E p \in Range(requested) :
                       Lower(d) = Lower(p)
        IN  /\ call.result.kind = "return"
            /\ call.result.value = IF hit THEN 1 ELSE 0
            /\ \A others \in SeqsUpTo(DetectedLabels, MaxDetected) :
                  Range(others) = Range(detected) =>
                      metric_callback(metric, call.args.llm_context_list,
                          [kind |-> "response", labels |-> others]).result
                      = call.result

\* C4 witness: "email" requested, "Name" then "Email" detected, score 1.0
C4_Witness ==
    /\ call.fn = PiiCallback
    /\ call.service.kind = "response"
    /\ metric.given_pii_types = <<"email">>
    /\ call.service.labels = <<"Name", "Email">>
    /\ call.result = [kind |-> "return", value |-> 1]

\* C5: a failure of redact ends metric_callback with a raised error, never with a
\* score, and every metric_callback invokes redact exactly once, on the contexts
\* joined by newlines.
C5_RedactionFailureRaises ==
    (call.fn = PiiCallback) =>
        /\ call.log = <<[op |-> "redact", arg |-> Join("\n", call.args.llm_context_list)]>>
        /\ call.service.kind = "raise" =>
              /\ call.result.kind = "raise"
              /\ "value" \notin DOMAIN call.result

\* C5 witness: redact answered with an HTTP error and the callback raised
C5_Witness ==
    /\ call.fn = PiiCallback
    /\ call.service.kind = "raise"
    /\ call.service.error.type = "HTTPError"
    /\ call.result.kind = "raise"
    /\ Len(call.args.llm_context_list) = 2

\* C6 as claimed: an error of a collaborator, the LLM service (other than a context
\* overflow) or the redaction service, reaches the caller as it is: the caller
\* receives the collaborator's own error.
C6_SurfacedUnchanged ==
    ( /\ call.fn \in LLMCalls \cup {PiiCallback}
      /\ call.service.kind = "raise"
      /\ call.service.error.type # "ContextLengthException" ) =>
        /\ call.result.kind = "raise"
        /\ call.result.error = call.service.error

\* C6 as amended: an error of the LLM service other than a context overflow reaches
\* the caller as it is, in both template modules and in
\* AnswerConsistencyBinaryMetric.score; an error of the redaction service is replaced:
\* metric_callback raises a ValueError with a fixed message that carries nothing of
\* the service's error.
C6_Surfaced ==
    /\ ( /\ call.fn \in LLMCalls
         /\ call.service.kind = "raise"
         /\ call.service.error.type # "ContextLengthException" ) =>
           /\ call.result.kind = "raise"
           /\ call.result.error = call.service.error
    /\ (call.fn = PiiCallback /\ call.service.kind = "raise") =>
           /\ call.result.kind = "raise"
           /\ call.result.error.type = "ValueError"
           /\ call.result.error.msg
                  = "Cannot compute AnswerContainsPiiMetric. Error occured communicating "
                    \o "with Textual.  Please try again later or reach out via GitHub "
                    \o "issues."
           /\ ~Contains(call.result.error.msg, call.service.error.msg)

\* C6 witness: redact failed with a ConnectionError, the caller got a ValueError
C6_Witness ==
    /\ call.fn = PiiCallback
    /\ call.service.kind = "raise"
    /\ call.service.error.type = "ConnectionError"
    /\ call.result.kind = "raise"
    /\ call.result.error.type = "ValueError"

\* C6 second case: an LLM failure that came through a tval call unchanged
C6_WitnessLLM ==
    /\ call.fn = "ask_for_main_points"
    /\ call.service.kind = "raise"
    /\ call.result.kind = "raise"
    /\ call.result.error = call.service.error

\* C7: in the Consistency and Derivation prompts of both template modules the context
\* list is rendered as one block 'CONTEXT {i}:\n{text}\nEND OF CONTEXT {i}' per entry,
\* each after a blank line, i running 0..n-1 in input order, block i carrying the i-th
\* text and nothing else in between; with two different entries swapped, each of the
\* two indices carries the other text and the prompt differs.
C7_ContextBlocks ==
    (call.fn \in ContextListCalls) =>
        LET context_list == call.args.context_list
            n == Len(context_list)
            section == ContextSection(call.fn, call.args, call.prompt)
        IN  /\ Len(section) = BlocksLen(context_list, n)
            /\ \A i \in 1..n :
                  /\ BlockAt(section, context_list, i) = Block(i - 1, context_list[i])
                  /\ SubSeq(section, BlocksLen(context_list, i - 1) + 1,
                            BlocksLen(context_list, i - 1) + 2) = "\n\n"
            /\ \A i, j \in 1..n :
                  (i < j /\ context_list[i] # context_list[j]) =>
                      LET swapped == Swapped(context_list, i, j)
                          prompt == MessageOf(call.fn, call.args, swapped)
                          other == ContextSection(call.fn, call.args, prompt)
                      IN  /\ BlockAt(other, swapped, i) = Block(i - 1, context_list[j])
                          /\ BlockAt(other, swapped, j) = Block(j - 1, context_list[i])
                          /\ BlockAt(other, swapped, i) # BlockAt(section, context_list, i)
                          /\ prompt # call.prompt

\* C7 witness: a tval Derivation prompt of two different contexts
C7_Witness ==
    /\ call.fn = "ask_whether_statement_derived_from_context"
    /\ call.args.context_list = <<"ab", "">>
    /\ Contains(call.prompt, "\n\nCONTEXT 0:\nab\nEND OF CONTEXT 0\n\nCONTEXT 1:\n\nEND OF CONTEXT 1")

\* C8: with an empty context_list the Consistency and Derivation prompts are built,
\* hold no CONTEXT block and nothing stray: the prompt is the fixed wording followed
\* only by the ANSWER (Consistency) or STATEMENT (Derivation) segment, and that segment
\* has the same separators around it when contexts are present.
C8_EmptyContextList ==
    (call.fn \in ContextListCalls) =>
        LET text == FixedText(call.fn)
            segment == IF call.fn \in ConsistencyCalls THEN AnswerSegment(call.args)
                       ELSE StatementSegment(call.args)
            prompt == call.prompt
        IN  /\ call.log[1].arg = prompt
            /\ SubSeq(prompt, 1, Len(text)) = text
            /\ IF call.fn \in ConsistencyCalls
               THEN SubSeq(prompt, Len(prompt) - Len(segment) + 1, Len(prompt)) = segment
               ELSE SubSeq(prompt, Len(text) + 1, Len(text) + Len(segment)) = segment
            /\ call.args.context_list = <<>> =>
                  /\ prompt = text \o segment
                  /\ ~Contains(prompt, "CONTEXT ")

\* C8 witness: a Consistency prompt of tonic_validate built for no contexts
C8_Witness ==
    /\ call.fn = "answer_consistent_with_context_call"
    /\ call.args.context_list = <<>>
    /\ call.args.answer = "ab"
    /\ call.result.kind = "return"

\* C9: AnswerConsistencyBinaryMetric.score returns 1 exactly when the reply parses to
\* true, 0 exactly when it parses to false, and raises, returning no score, when
\* parse_boolean_response fails; a reply holding neither "true" nor "false" is such a
\* failure.
C9_BinaryScore ==
    (call.fn = BinaryScore /\ call.parsed # <<>>) =>
        LET reply == call.parsed[1]
            parsed == call.parsed[2]
        IN  /\ reply = call.service.text
            /\ parsed \in parse_boolean_response(reply)
            /\ (call.result = [kind |-> "return", value |-> 1])
                  <=> (parsed = [kind |-> "return", value |-> TRUE])
            /\ (call.result = [kind |-> "return", value |-> 0])
                  <=> (parsed = [kind |-> "return", value |-> FALSE])
            /\ parsed.kind = "raise" =>
                  /\ call.result = parsed
                  /\ "value" \notin DOMAIN call.result
            /\ (~Contains(Lower(reply), "true") /\ ~Contains(Lower(reply), "false")) =>
                  call.result.kind = "raise"

\* C9 witness: the reply "maybe" made score raise the parse failure
C9_Witness ==
    /\ call.fn = BinaryScore
    /\ call.parsed # <<>>
    /\ call.parsed[1] = "maybe"
    /\ call.result.kind = "raise"
    /\ call.result.error.type = "ParseError"

\* C10: constructing AnswerContainsPiiMetric without a textual_api_key while
\* TONIC_TEXTUAL_API_KEY is unset raises a ValueError before the TonicTextual client
\* is created, and leaves no object to call metric_callback on; with a key passed or
\* the variable set the construction creates the client once and succeeds.
C10_FailFast ==
    /\ (call.fn = PiiInit) =>
           IF call.args.textual_api_key = None /\ call.env = None
           THEN /\ call.result.kind = "raise"
                /\ call.result.error.type = "ValueError"
                /\ call.log = <<>>
           ELSE /\ call.result = [kind |-> "return"]
                /\ Len(call.log) = 1
                /\ call.log[1].op = "TonicTextual"
                /\ metric.constructed
                /\ metric.textual = call.log[1].args
    /\ (call.fn = PiiCallback) => metric.constructed
    /\ ~metric.constructed => call.fn # PiiCallback

\* C10 witness: the first construction, with no key anywhere, failed
C10_Witness ==
    /\ call.fn = PiiInit
    /\ call.args.textual_api_key = None
    /\ call.env = None
    /\ call.result.kind = "raise"
    /\ ~metric.constructed

\* C11 as claimed: each of the six functions of tval/llm_calls.py and each of the seven
\* of tonic_validate/utils/llm_calls.py hands the LLM service the full rendered prompt
\* and a temperature of 0.
C11_PromptAndTemperatureZero ==
    (call.fn \in TonicValidateCalls \cup TvalCalls) =>
        /\ call.log[1].arg = BuiltPrompt(call.fn, call.args)
        /\ "temperature" \in DOMAIN call.log[1]
        /\ call.log[1].temperature = 0

\* C11 as amended: the six functions of tval/llm_calls.py call
\* get_single_message once, with the full rendered prompt, the model and temperature 0;
\* the seven functions of tonic_validate/utils/llm_calls.py call
\* openai_service.get_response with the full rendered prompt and nothing else: they
\* pass no temperature, which is left to the service object.
C11_WhatTheServiceIsHanded ==
    /\ (call.fn \in TvalCalls) =>
           call.log = <<[op |-> "get_single_message",
                         arg |-> BuiltPrompt(call.fn, call.args),
                         model |-> call.args.model,
                         temperature |-> 0]>>
    /\ (call.fn \in TonicValidateCalls) =>
           call.log[1] = [op |-> "get_response", arg |-> BuiltPrompt(call.fn, call.args)]

\* C11 witness: similarity_score_call handed get_response the prompt and no temperature
C11_Witness ==
    /\ call.fn = "similarity_score_call"
    /\ call.args.question = "ab"
    /\ DOMAIN call.log[1] = {"op", "arg"}
    /\ call.log[1].arg = call.prompt
    /\ call.result.kind = "return"

C13_OnceThenCount ==
    (call.fn \in TonicValidateCalls) =>
        /\ Len(call.log) >= 1
        /\ call.log[1] = [op |-> "get_response", arg |-> call.prompt]
        /\ \A i \in 2..Len(call.log) : call.log[i].op = "get_token_count"
        /\ Len(call.log) > 1 =>
              /\ call.service.kind = "raise"
              /\ call.service.error.type = "ContextLengthException"
        /\ call.service.kind = "reply" =>
              /\ Len(call.log) = 1
              /\ call.result = [kind |-> "return", value |-> call.service.text]
        /\ Overflow(call) =>
              /\ Len(call.log) > 1
              /\ call.log[Len(call.log)] = [op |-> "get_token_count", arg |-> call.prompt]
              /\ call.result.kind = "raise"
              /\ call.result.error.type = "ContextLengthException"
              /\ "value" \notin DOMAIN call.result

\* C13 witness: main_points_call overflowed: one get_response, then the counts of the
\* answer and of the prompt, then the raise
C13_Witness ==
    /\ call.fn = "main_points_call"
    /\ Overflow(call)
    /\ Len(call.log) = 3
    /\ call.log[2] = [op |-> "get_token_count", arg |-> call.args.answer]
    /\ call.result.kind = "raise"

\* C13 second case: main_points_call returned the reply after one get_response
C13_WitnessSuccess ==
    /\ call.fn = "main_points_call"
    /\ call.service.kind = "reply"
    /\ Len(call.log) = 1
    /\ call.result.kind = "return"

\* C14 as claimed: the Consistency prompts of tval/llm_calls.py and of
\* tonic_validate/utils/llm_calls.py both ask for 'true' when the answer holds nothing
\* that cannot be attributed to the context, so that int(parsed reply) is 1 for a
\* consistent answer and 0 otherwise.
C14_SameMeaning ==
    /\ (call.fn \in ConsistencyCalls \cup {BinaryScore}) =>
           /\ TrueWhenAttributable(call.prompt)
           /\ ~TrueWhenUnattributable(call.prompt)
    /\ (call.fn = BinaryScore /\ call.result.kind = "return") =>
           call.result.value = int(call.parsed[2].value)

\* C14 as amended: the two modules give 'true' opposite meanings.  The Consistency
\* prompt of tonic_validate/utils/llm_calls.py, the one
\* AnswerConsistencyBinaryMetric.score sends, asks for 'false' when the answer holds
\* information that cannot be attributed to the context and for 'true' otherwise, so
\* int(parsed reply) is 1 for a consistent answer; the prompt of tval/llm_calls.py asks
\* for 'true' when the answer holds such information and for 'false' otherwise.
C14_MeaningOfTrue ==
    /\ (call.fn \in {"answer_consistent_with_context_call", BinaryScore}) =>
           /\ TrueWhenAttributable(call.prompt)
           /\ ~TrueWhenUnattributable(call.prompt)
    /\ (call.fn = "ask_whether_answer_is_consistent_with_context") =>
           /\ TrueWhenUnattributable(call.prompt)
           /\ ~TrueWhenAttributable(call.prompt)
    /\ (call.fn = BinaryScore /\ call.result.kind = "return") =>
           call.result.value = int(call.parsed[2].value)

\* C14 witness: score sent the tonic_validate wording, the reply was "True.", the
\* score is 1
C14_Witness ==
    /\ call.fn = BinaryScore
    /\ TrueWhenAttributable(call.prompt)
    /\ call.parsed # <<>>
    /\ call.parsed[1] = "True."
    /\ call.result = [kind |-> "return", value |-> 1]

\* C14 second case: a tval Consistency prompt, asking for 'true' on unattributable
\* information
C14_WitnessTval ==
    /\ call.fn = "ask_whether_answer_is_consistent_with_context"
    /\ TrueWhenUnattributable(call.prompt)
    /\ Len(call.args.context_list) = 1

===========================================================================
